---- MODULE Spec2Model ----
(***************************************************************************)
(* Document patch engine of the live-editing preview provider              *)
(* (theme/core/preview-context.tsx): path get/set, deepMerge, schema       *)
(* resolution, locale resolution, section registry, array editor and the   *)
(* publish payload builder, as a state machine over one edit session.      *)
(***************************************************************************)
EXTENDS Integers, Sequences, FiniteSets, TLC

(***************************************************************************)
(* JavaScript values.  Every value is a record [k, v]: k is the kind,      *)
(* "u" undefined, "z" null, "s" string, "n" number, "b" boolean,           *)
(* "o" plain object (v is a function from its own keys), "a" array (v is a *)
(* sequence; an undefined cell is a hole).                                 *)
(***************************************************************************)
Undef == [k |-> "u", v |-> 0]
Null == [k |-> "z", v |-> 0]
Str(s) == [k |-> "s", v |-> s]
Num(n) == [k |-> "n", v |-> n]
Bool(b) == [k |-> "b", v |-> b]
Obj(f) == [k |-> "o", v |-> f]
Arr(a) == [k |-> "a", v |-> a]
EmptyObj == Obj(<<>>)
EmptyArr == Arr(<<>>)

\* x === 'text'
StrIs(x, text) == x.k = "s" /\ x.v = text

IsUndef(x) == x.k = "u"
IsStr(x) == x.k = "s"
IsObj(x) == x.k = "o"
IsArr(x) == x.k = "a"

\* JavaScript truthiness of a value
Truthy(x) ==
  CASE x.k = "u" -> FALSE
    [] x.k = "z" -> FALSE
    [] x.k = "s" -> x.v # ""
    [] x.k = "n" -> x.v # 0
    [] x.k = "b" -> x.v
    [] OTHER -> TRUE

\* a || b
OrElse(a, b) == IF Truthy(a) THEN a ELSE b

\* a ?? b
Coalesce(a, b) == IF a.k \in {"u", "z"} THEN b ELSE a

(***************************************************************************)
(* Paths are sequences of tokens (the result of path.split('.')).  A token *)
(* is an array index when Number(token) is not NaN.                        *)
(***************************************************************************)
Digits == <<"0", "1", "2", "3", "4">>
IsIndex(tok) == \E i \in 1..Len(Digits) : Digits[i] = tok
TokNum(tok) == (CHOOSE i \in 1..Len(Digits) : Digits[i] = tok) - 1
NumTok(n) == Digits[n + 1]

Max2(a, b) == IF a >= b THEN a ELSE b
Max3(a, b, c) == Max2(a, Max2(b, c))

\* current?.[key]
Child(cur, key) ==
  CASE cur.k = "o" -> IF key \in DOMAIN cur.v THEN cur.v[key] ELSE Undef
    [] cur.k = "a" -> IF IsIndex(key) /\ TokNum(key) < Len(cur.v)
                        THEN cur.v[TokNum(key) + 1] ELSE Undef
    [] OTHER -> Undef

RECURSIVE getFrom(_, _, _)
getFrom(cur, path, i) ==
  IF i > Len(path) THEN cur ELSE getFrom(Child(cur, path[i]), path, i + 1)

\* get(obj, path)
get(obj, path) == IF path = <<>> THEN Undef ELSE getFrom(obj, path, 1)

\* { [token]: value, ...current }: a key the object already has keeps its value
SpreadWithOwnLast(current, token, value) ==
  LET own == CASE current.k = "o" -> current.v
               [] current.k = "a" ->
                    [t \in {NumTok(i - 1) : i \in 1..Len(current.v)} |->
                       current.v[TokNum(t) + 1]]
               [] OTHER -> <<>>
  IN Obj([t \in (DOMAIN own) \cup {token} |->
            IF t \in DOMAIN own THEN own[t] ELSE value])

\* { ...current, [token]: value }
SpreadWith(current, token, value) ==
  LET own == CASE current.k = "o" -> current.v
               [] current.k = "a" ->
                    [t \in {NumTok(i - 1) : i \in 1..Len(current.v)} |->
                       current.v[TokNum(t) + 1]]
               [] OTHER -> <<>>
  IN Obj([t \in (DOMAIN own) \cup {token} |->
            IF t = token THEN value ELSE own[t]])

\* an array-building loop that never looks at base
FillArrayNoBase(current, base, at, cell) ==
  LET orig == IF IsArr(current) THEN current.v ELSE <<>>
      maxLen == Max2(Len(orig), at + 1)
  IN Arr([i \in 1..maxLen |->
            IF i = at + 1 THEN cell
            ELSE IF i <= Len(orig) THEN orig[i]
            ELSE Undef])

\* the array-building loop of set(): cell `at` receives `cell`, every other
\* cell comes from orig, else from base, else stays undefined
FillArray(current, base, at, cell) ==
  LET orig == IF IsArr(current) THEN current.v ELSE <<>>
      baseArr == IF IsArr(base) THEN base.v ELSE <<>>
      maxLen == Max3(Len(orig), Len(baseArr), at + 1)
  IN Arr([i \in 1..maxLen |->
            IF i = at + 1 THEN cell
            ELSE IF i <= Len(orig) /\ ~IsUndef(orig[i]) THEN orig[i]
            ELSE IF i <= Len(baseArr) /\ ~IsUndef(baseArr[i]) THEN baseArr[i]
            ELSE Undef])

RECURSIVE setInner(_, _, _, _, _)
setInner(current, tokens, idx, base, value) ==
  LET token == tokens[idx]
      isLast == idx = Len(tokens)
  IN IF isLast
       THEN IF IsIndex(token)
              THEN FillArray(current, base, TokNum(token), value)
              ELSE SpreadWith(current, token, value)
       ELSE IF IsIndex(token)
              THEN FillArray(current, base, TokNum(token),
                     setInner(Child(IF IsArr(current) THEN current ELSE EmptyArr, token),
                              tokens, idx + 1,
                              Child(IF IsArr(base) THEN base ELSE EmptyArr, token),
                              value))
              ELSE SpreadWith(current, token,
                     setInner(IF Truthy(current) THEN Child(current, token) ELSE Undef,
                              tokens, idx + 1,
                              IF Truthy(base) THEN Child(base, token) ELSE Undef,
                              value))

\* set(obj, path, value, baseObj)
set(obj, path, value, baseObj) ==
  IF path = <<>> THEN obj ELSE setInner(obj, path, 1, baseObj, value)

isPlainObject(x) == x.k = "o"

\* isSparse(arr) inside deepMerge
isSparse(a) == \E i \in 1..Len(a) : IsUndef(a[i])

RECURSIVE deepMerge(_, _)
deepMerge(target, source) ==
  IF IsArr(target) \/ IsArr(source)
    THEN IF IsArr(target) /\ IsArr(source)
           THEN IF ~isSparse(source.v)
                  THEN source
                  ELSE Arr([i \in 1..Max2(Len(target.v), Len(source.v)) |->
                         LET tVal == IF i <= Len(target.v) THEN target.v[i] ELSE Undef
                             sVal == IF i <= Len(source.v) THEN source.v[i] ELSE Undef
                         IN IF IsUndef(sVal) THEN tVal
                            ELSE IF IsUndef(tVal) THEN sVal
                            ELSE deepMerge(tVal, sVal)])
           ELSE source
    ELSE IF ~isPlainObject(target) \/ ~isPlainObject(source)
           THEN source
           ELSE Obj([key \in (DOMAIN target.v) \cup (DOMAIN source.v) |->
                  IF key \notin DOMAIN source.v THEN target.v[key]
                  ELSE LET t == Child(target, key)
                           s == source.v[key]
                       IN IF IsArr(s) \/ IsArr(t)
                            THEN deepMerge(IF IsArr(t) THEN t ELSE EmptyArr,
                                           IF IsArr(s) THEN s ELSE EmptyArr)
                            ELSE IF isPlainObject(t) /\ isPlainObject(s)
                                   THEN deepMerge(t, s)
                                   ELSE s])


\* JSON.parse(JSON.stringify(x)): object keys holding undefined are dropped,
\* undefined array cells become null
RECURSIVE Jsonify(_)
Jsonify(x) ==
  CASE x.k = "o" ->
         Obj([key \in {q \in DOMAIN x.v : ~IsUndef(x.v[q])} |-> Jsonify(x.v[key])])
    [] x.k = "a" ->
         Arr([i \in 1..Len(x.v) |-> IF IsUndef(x.v[i]) THEN Null ELSE Jsonify(x.v[i])])
    [] OTHER -> x

(***************************************************************************)
(* The schema and the base document of the session.  The schema has a      *)
(* localized site field, a singleton section type with a localized and a   *)
(* plain field, a singleton type with a capped array of object items, and  *)
(* a repeatable type without defaultData.                                  *)
(***************************************************************************)
DefaultLocale == "en"
Locales == {"en", "fr"}

PlainField == Obj([type |-> Str("string"), editable |-> Bool(TRUE)])
LocalizedField ==
  Obj([type |-> Str("string"), editable |-> Bool(TRUE), localized |-> Bool(TRUE)])

\* maxItems of the services.items array
MaxItems == 3

Item(name, price, label) ==
  Obj([name |-> Str(name), price |-> Str(price), cta |-> Obj([label |-> Str(label)])])

ItemSchema ==
  Obj([name |-> PlainField, price |-> PlainField, cta |-> Obj([label |-> PlainField])])

HeroType ==
  Obj([displayName |-> Str("Hero"), singleton |-> Bool(TRUE),
       schema |-> Obj([title |-> LocalizedField, tagline |-> PlainField]),
       defaultData |-> Obj([title |-> Str("Headline"), tagline |-> Str("Tagline")])])

ServicesType ==
  Obj([displayName |-> Str("Services"), singleton |-> Bool(TRUE),
       schema |-> Obj([items |-> Obj([type |-> Str("array"), editable |-> Bool(TRUE),
                                      maxItems |-> Num(MaxItems),
                                      itemSchema |-> ItemSchema])]),
       defaultData |-> Obj([items |-> Arr(<<Item("Service", "$$", "More")>>)])])

BannerType ==
  Obj([displayName |-> Str("Banner"), singleton |-> Bool(FALSE),
       schema |-> Obj([text |-> PlainField])])

schema ==
  Obj([site |-> Obj([brand |-> LocalizedField]),
       sectionTypes |-> Obj([hero |-> HeroType, services |-> ServicesType,
                             banner |-> BannerType])])

\* a section object; region is a value because callers may pass any
SectionObj(id, type, region, order, data) ==
  Obj([id |-> Str(id), type |-> Str(type), enabled |-> Bool(TRUE),
       region |-> region, order |-> Num(order), data |-> data])

Section(id, type, region, order, data) == SectionObj(id, type, Str(region), order, data)

HomeSections ==
  <<Section("hero", "hero", "main", 10,
            Obj([title |-> Str("Welcome"), tagline |-> Str("Since 1999")])),
    Section("services", "services", "main", 20,
            Obj([items |-> Arr(<<Item("Tax", "10", "Book"), Item("Audit", "20", "Call")>>)]))>>

AboutSections ==
  <<Section("aboutUsHero", "hero", "main", 10,
            Obj([title |-> Str("About"), tagline |-> Str("Us")]))>>

BaseDocument ==
  Obj([site |-> Obj([brand |-> Str("Acme")]),
       pages |-> Obj([home |-> Obj([sections |-> Arr(HomeSections)]),
                      about |-> Obj([sections |-> Arr(AboutSections)])])])

\* a section left out of rendering
Disabled(section) == SpreadWith(section, "enabled", Bool(FALSE))

\* a section of the service-detail page, stamped with its service slug
ServiceSection(slug, section) == SpreadWith(section, "serviceSlug", Str(slug))

\* the sections of all services: two of service "tax" and two of service
\* "audit", one of them disabled
ServiceSections ==
  <<ServiceSection("tax", Section("tax-hero", "hero", "main", 10,
                     Obj([title |-> Obj([en |-> Str("Tax"), fr |-> Str("Impots")]),
                          tagline |-> Str("Fast")]))),
    ServiceSection("audit", Section("audit-hero", "hero", "main", 20,
                     Obj([title |-> Str("Audit"), tagline |-> Str("Safe")]))),
    ServiceSection("audit", Disabled(Section("audit-banner-0", "banner", "main", 30,
                     Obj([text |-> Str("Sale")]))))>>

\* a document of the multi-page shape that still carries the single-page
\* sections field at its root
SiteDocument ==
  Obj([site |-> Obj([brand |-> Str("Acme")]),
       sections |-> Arr(HomeSections),
       pages |-> Obj(("home" :> Obj([sections |-> Arr(HomeSections)]))
                     @@ ("about" :> Obj([sections |-> Arr(AboutSections)]))
                     @@ ("service-detail" :> Obj([sections |-> Arr(ServiceSections)])))])

(***************************************************************************)
(* State of one PreviewProvider.                                           *)
(***************************************************************************)
VARIABLES
  initialData,           \* the loaded document (prop initialData)
  editedData,            \* the overlay: useState editedData
  sections,              \* the section registry: useState sections (a sequence)
  sharesBase,            \* the registry array is the very array of initialData
  hasStructuralChanges,  \* useState hasStructuralChanges
  currentLocale,         \* useState currentLocale
  storage,               \* localStorage slot preview-<siteSlug>; Undef when absent
  now,                   \* Date.now()
  inflight,              \* payloads posted as PUBLISH_PAYLOAD_READY, not yet answered
  posted,                \* last message type posted to window.parent by an operation
  pageType,              \* prop pageType
  contextSlug,           \* prop contextSlug; "" when the page has none
  arg,                   \* the argument of a direct call of a pure function
  result,                \* what that call returned
  toolbar,               \* ToolbarOverlay: useState isPublishing, and the publish
                         \* messages it has received
  steps,                 \* number of operations applied so far
  last,                  \* the last operation applied
  prev,                  \* the operation applied before it
  pre,                   \* overlay, registry, cache and flags before the last operation
  tracked,               \* the last field edit of a section, while only structural
                         \* operations on other sections have followed it
  added                  \* ids of the sections added since the tracked edit

vars == <<initialData, editedData, sections, sharesBase, hasStructuralChanges,
          currentLocale, storage, now, inflight, posted, pageType, contextSlug, arg,
          result, toolbar, steps, last, prev, pre, tracked, added>>

\* getContextProperty(); "" stands for null
contextProperty ==
  CASE pageType = "service-detail" -> "serviceSlug"
    [] pageType = "product-detail" -> "productSlug"
    [] pageType = "category-detail" -> "categorySlug"
    [] OTHER -> ""

\* contextSlug && contextProperty
hasContext == contextSlug # "" /\ contextProperty # ""

\* getInitialSections()
getInitialSections ==
  LET paged == get(initialData, <<"pages", pageType, "sections">>)
  IN IF Truthy(paged) THEN paged
     ELSE OrElse(get(initialData, <<"sections">>), EmptyArr)

\* sections.find(s => s.id === sectionId)
FindSection(secs, sectionId) ==
  IF \E i \in 1..Len(secs) : StrIs(Child(secs[i], "id"), sectionId)
    THEN secs[CHOOSE i \in 1..Len(secs) :
                /\ StrIs(Child(secs[i], "id"), sectionId)
                /\ \A j \in 1..(i - 1) : ~StrIs(Child(secs[j], "id"), sectionId)]
    ELSE Undef

\* the merge of getSections(): every registry section with its overlay sub-tree
MergedSections(secs, overlay) ==
  [i \in 1..Len(secs) |->
     LET section == secs[i]
         sectionEdits == get(overlay, <<"sections", Child(section, "id").v>>)
     IN IF Truthy(sectionEdits)
          THEN SpreadWith(section, "data", deepMerge(Child(section, "data"), sectionEdits))
          ELSE section]

\* getSections() without a region filter
getSections == MergedSections(sections, editedData)

\* the schema walk of getFieldSchema for the tokens after sections.<id>
RECURSIVE walkSchema(_, _, _)
walkSchema(node, tokens, i) ==
  IF i > Len(tokens) THEN node
  ELSE IF ~Truthy(node) THEN Undef
  ELSE IF IsObj(node) /\ StrIs(Child(node, "type"), "array") /\ IsIndex(tokens[i])
         THEN walkSchema(OrElse(Child(node, "itemSchema"), Obj([editable |-> Bool(TRUE)])),
                         tokens, i + 1)
  ELSE walkSchema(Child(node, tokens[i]), tokens, i + 1)

Tail2(path) == SubSeq(path, 3, Len(path))

\* getFieldSchema(path), null rendered as Undef, against a given live list
FieldSchemaIn(path, live) ==
  IF path = <<>> THEN Undef
  ELSE IF path[1] # "sections"
         THEN IF Truthy(get(schema, path)) THEN get(schema, path) ELSE Undef
  ELSE IF Len(path) < 2 THEN Undef
  ELSE LET section == FindSection(live, path[2])
           sectionType == Child(section, "type")
           baseSectionSchema ==
             IF Truthy(sectionType)
               THEN get(schema, <<"sectionTypes", sectionType.v, "schema">>)
               ELSE Undef
       IN IF ~Truthy(sectionType) \/ ~Truthy(baseSectionSchema) THEN Undef
          ELSE LET node == walkSchema(baseSectionSchema, Tail2(path), 1)
               IN IF Truthy(node) THEN node ELSE Undef

getFieldSchema(path) == FieldSchemaIn(path, getSections)

IsLocalized(fieldSchema) == Truthy(Child(fieldSchema, "localized"))

\* Object.keys(rawValue), as a set
Keys(x) ==
  IF IsObj(x) THEN DOMAIN x.v
  ELSE IF IsArr(x) THEN {NumTok(i - 1) : i \in 1..Len(x.v)}
  ELSE {}

\* getLocalizedValue(rawValue, locale)
getLocalizedValue(rawValue, locale) ==
  IF IsStr(rawValue)
    THEN [value |-> rawValue, isTranslated |-> locale = "en",
          isFallback |-> locale # "en", availableLocales |-> {"en"}]
  ELSE IF Truthy(rawValue) /\ (IsObj(rawValue) \/ IsArr(rawValue))
    THEN LET hasCurrentLocale == locale \in Keys(rawValue)
             hasFallback == "en" \in Keys(rawValue)
         IN [value |-> OrElse(Child(rawValue, locale),
                              OrElse(Child(rawValue, "en"), Str(""))),
             isTranslated |-> hasCurrentLocale,
             isFallback |-> ~hasCurrentLocale /\ hasFallback,
             availableLocales |-> Keys(rawValue)]
  ELSE [value |-> Str(""), isTranslated |-> FALSE, isFallback |-> FALSE,
        availableLocales |-> {}]

\* getValue(path)
getValueIn(path, overlay, secs, locale) ==
  LET live == MergedSections(secs, overlay)
      fieldSchema == FieldSchemaIn(path, live)
      editedValue == get(overlay, path)
      rawValue == IF ~IsUndef(editedValue) THEN editedValue ELSE get(initialData, path)
  IN IF IsLocalized(fieldSchema) THEN getLocalizedValue(rawValue, locale).value
     ELSE IF path # <<>> /\ path[1] = "sections" /\ Len(path) >= 2
            THEN LET section == FindSection(live, path[2])
                 IN IF IsUndef(section) THEN Undef
                    ELSE IF Len(path) = 2 THEN section
                    ELSE get(Child(section, "data"), Tail2(path))
     ELSE rawValue

getValue(path) == getValueIn(path, editedData, sections, currentLocale)

\* getArrayFromLiveState(arrayPath, getSectionsFn)
getArrayFromLiveState(arrayPath, live) ==
  IF arrayPath = <<>> \/ arrayPath[1] # "sections" \/ Len(arrayPath) < 2 THEN <<>>
  ELSE LET section == FindSection(live, arrayPath[2])
       IN IF IsUndef(section) THEN <<>>
          ELSE LET arr == get(Child(section, "data"), Tail2(arrayPath))
               IN IF IsArr(arr) THEN arr.v ELSE <<>>

(***************************************************************************)
(* Bookkeeping of the session: the operation just applied and the state    *)
(* it was applied to.                                                      *)
(***************************************************************************)
Op(name, path, val, id, pos) ==
  [op |-> name, path |-> path, val |-> val, id |-> id, pos |-> pos,
   loc |-> currentLocale, mid |-> inflight # <<>>]

NoOp ==
  [op |-> "init", path |-> <<>>, val |-> Undef, id |-> "", pos |-> 0,
   loc |-> "", mid |-> FALSE]

Snapshot ==
  [editedData |-> editedData, sections |-> sections, storage |-> storage,
   hasStructuralChanges |-> hasStructuralChanges, currentLocale |-> currentLocale]

IsStructural(op) == op.op \in {"addSection", "removeSection", "moveSection"}

IsSectionEdit(op) ==
  op.op = "updateField" /\ Len(op.path) >= 3 /\ op.path[1] = "sections"

\* the tracked edit stays while structural operations on other sections follow
KeepsTracked(op) ==
  IsSectionEdit(tracked) /\ IsStructural(op) /\ op.id # tracked.path[2]

RecordStep(op, bound) ==
  /\ steps < bound
  /\ UNCHANGED <<pageType, contextSlug, arg, result>>
  /\ steps' = steps + 1
  /\ prev' = last
  /\ last' = op
  /\ pre' = Snapshot
  /\ tracked' = IF IsSectionEdit(op) THEN op
                ELSE IF KeepsTracked(op) THEN tracked
                ELSE NoOp
  /\ added' = IF ~KeepsTracked(op) THEN {}
              ELSE IF op.op = "addSection" THEN added \cup {op.id}
              ELSE IF op.op = "removeSection" THEN added \ {op.id}
              ELSE added

\* an operation of the provider that sends the toolbar no publish message
Record(op, bound) == RecordStep(op, bound) /\ UNCHANGED toolbar

\* the toolbar as mounted: not publishing, no publish message received
ToolbarMounted == [isPublishing |-> FALSE, started |-> 0, finished |-> 0]

\* no direct call of a pure function: no argument, no result
NoArg == [raw |-> Undef, locale |-> ""]
NoResult == [fn |-> "none", out |-> Undef]

\* the provider mounted on a page of a document, before any operation
Mounted(document, page, slug) ==
  /\ initialData = document
  /\ pageType = page
  /\ contextSlug = slug
  /\ editedData = EmptyObj
  /\ sections = getInitialSections.v
  /\ sharesBase = TRUE
  /\ hasStructuralChanges = FALSE
  /\ storage = Undef
  /\ now = 1
  /\ inflight = <<>>
  /\ posted = "THEME_READY"
  /\ toolbar = ToolbarMounted
  /\ steps = 0
  /\ last = NoOp
  /\ prev = NoOp
  /\ pre = Snapshot
  /\ tracked = NoOp
  /\ added = {}

Init ==
  /\ currentLocale \in Locales
  /\ Mounted(BaseDocument, "home", "")
  /\ arg = NoArg
  /\ result = NoResult

\* hasChanges
hasChanges == hasStructuralChanges \/ DOMAIN editedData.v # {}

(***************************************************************************)
(* updateField(path, value)                                                *)
(***************************************************************************)
\* the value stored for a field: wrapped into the locale map when localized
processedValueOf(path, value) ==
  LET fieldSchema == getFieldSchema(path)
      currentValue == OrElse(get(editedData, path),
                             OrElse(get(initialData, path), EmptyObj))
      localizedObject == IF IsStr(currentValue)
                           THEN Obj([en |-> currentValue])
                           ELSE currentValue
  IN IF IsLocalized(fieldSchema)
       THEN SpreadWith(localizedObject, currentLocale, value)
       ELSE value

\* no path is taken for an edit of a first item
isFirstItemEditNever(path) == FALSE

\* path.match(/^sections\.[^.]+\.[^.]+\.0($|\.)/)
isFirstItemEdit(path) == Len(path) >= 4 /\ path[1] = "sections" /\ path[4] = "0"

\* the overlay returned by the setEditedData updater of updateField
updateFieldOverlay(path, value) ==
  LET processedValue == processedValueOf(path, value)
      isDirectFirstItem == path[Len(path)] = "0"
      actualArrayPath == IF isDirectFirstItem
                           THEN SubSeq(path, 1, Len(path) - 1)
                           ELSE SubSeq(path, 1, Len(path) - 2)
      currentArray == getArrayFromLiveState(actualArrayPath,
                                            MergedSections(sections, editedData))
      otherItems == IF currentArray = <<>> THEN <<>> ELSE Tail(currentArray)
      newData == set(editedData, path, processedValue, initialData)
      originalFirstItem == currentArray[1]
      fieldPathInItem == SubSeq(path, 5, Len(path))
      updatedFirstItem ==
        IF fieldPathInItem # <<>>
          THEN IF Len(fieldPathInItem) >= 2
                 THEN deepMerge(originalFirstItem,
                                set(EmptyObj, fieldPathInItem, value, originalFirstItem))
                 ELSE SpreadWith(originalFirstItem, fieldPathInItem[1], processedValue)
          ELSE processedValue
      reconstructedArray == Arr(<<updatedFirstItem>> \o otherItems)
  IN IF isFirstItemEdit(path) /\ otherItems # <<>>
       THEN set(newData, actualArrayPath, reconstructedArray, initialData)
       ELSE newData

\* an updateField that saves the overlay it started from
applyUpdateFieldSavesPrev(path, value) ==
  /\ editedData' = updateFieldOverlay(path, value)
  /\ storage' = Jsonify(editedData)
  /\ UNCHANGED <<initialData, sections, sharesBase, hasStructuralChanges,
                 currentLocale, now, inflight, posted>>

\* the state change of updateField: overlay and localStorage slot
applyUpdateField(path, value) ==
  /\ editedData' = updateFieldOverlay(path, value)
  /\ storage' = Jsonify(updateFieldOverlay(path, value))
  /\ UNCHANGED <<initialData, sections, sharesBase, hasStructuralChanges,
                 currentLocale, now, inflight, posted>>

\* the page renders the enabled sections, on a sub-page those of its slug
IsRendered(section) ==
  /\ Truthy(Child(section, "enabled"))
  /\ hasContext => StrIs(Child(section, contextProperty), contextSlug)

\* the fields the page renders as editable: site.brand and, for every
\* registry section, the given relative paths that hold a value in the live view
RenderedPaths(sitePaths, relPaths) ==
  sitePaths \cup
  {<<"sections", Child(getSections[i], "id").v>> \o r :
     <<i, r>> \in {q \in (1..Len(sections)) \X relPaths :
                     /\ IsRendered(getSections[q[1]])
                     /\ ~IsUndef(get(Child(getSections[q[1]], "data"), q[2]))}}

updateField(sitePaths, relPaths, values, bound) ==
  \E path \in RenderedPaths(sitePaths, relPaths), v \in values :
    /\ Record(Op("updateField", path, Str(v), "", 0), bound)
    /\ applyUpdateField(path, Str(v))

\* the locale map createTranslation hands to updateField
translationOf(path, locale, value) ==
  LET currentValue == OrElse(get(editedData, path),
                             OrElse(get(initialData, path), EmptyObj))
      localizedObject == IF IsStr(currentValue)
                           THEN Obj([en |-> currentValue])
                           ELSE currentValue
  IN SpreadWith(localizedObject, locale, value)

\* createTranslation(path, locale, value)
createTranslation(sitePaths, relPaths, locales, values, bound) ==
  \E path \in RenderedPaths(sitePaths, relPaths), locale \in locales, v \in values :
    /\ Record(Op("createTranslation", path, Str(v), locale, 0), bound)
    /\ IF ~IsLocalized(getFieldSchema(path))
         THEN UNCHANGED <<initialData, editedData, sections, sharesBase,
                          hasStructuralChanges, currentLocale, storage, now,
                          inflight, posted>>
         ELSE applyUpdateField(path, translationOf(path, locale, Str(v)))

\* setCurrentLocale(locale)
setCurrentLocale(bound) ==
  \E locale \in Locales \ {currentLocale} :
    /\ Record(Op("setCurrentLocale", <<>>, Str(locale), "", 0), bound)
    /\ currentLocale' = locale
    /\ UNCHANGED <<initialData, editedData, sections, sharesBase, hasStructuralChanges,
                   storage, now, inflight, posted>>

(***************************************************************************)
(* Default data derivation                                                 *)
(***************************************************************************)
\* the key.includes(...) cascade of deriveDefaultFromFieldSchema for a string
\* field, over the keys of this schema (tagline, text, cta and items contain
\* none of the words of the cascade)
StringDefault(key) ==
  CASE key = "name" -> "Placeholder Name"
    [] key = "title" -> "Placeholder Title"
    [] key = "price" -> "$$"
    [] key = "label" -> "Click me"
    [] OTHER -> ""

\* deriveDefaultFromFieldSchema(fieldSchema, fieldKey)
deriveDefaultFromFieldSchema(fieldSchema, key) ==
  IF ~Truthy(fieldSchema) \/ ~(IsObj(fieldSchema) \/ IsArr(fieldSchema)) THEN Str("")
  ELSE LET type == Child(fieldSchema, "type")
       IN CASE StrIs(type, "string") -> Str(StringDefault(key))
            [] StrIs(type, "number") -> Num(0)
            [] StrIs(type, "boolean") -> Bool(FALSE)
            [] StrIs(type, "image") -> Str("")
            [] StrIs(type, "array") -> EmptyArr
            [] OTHER -> Str("")

\* deriveDefaultItemFromItemSchema(itemSchema)
deriveDefaultItemFromItemSchema(itemSchema) ==
  IF ~Truthy(itemSchema) THEN Str("")
  ELSE IF IsObj(itemSchema) /\ "type" \notin DOMAIN itemSchema.v
         THEN Obj([key \in DOMAIN itemSchema.v |->
                     deriveDefaultFromFieldSchema(itemSchema.v[key], key)])
  ELSE deriveDefaultFromFieldSchema(itemSchema, "")

\* deriveDefaultDataFromSectionSchema(sectionSchema)
deriveDefaultDataFromSectionSchema(sectionSchema) ==
  IF ~Truthy(sectionSchema) \/ ~IsObj(sectionSchema) THEN EmptyObj
  ELSE Obj([key \in DOMAIN sectionSchema.v |->
         LET fieldSchema == sectionSchema.v[key]
         IN IF StrIs(Child(fieldSchema, "type"), "array")
              THEN IF Truthy(Child(fieldSchema, "itemSchema"))
                     THEN Arr(<<deriveDefaultItemFromItemSchema(Child(fieldSchema, "itemSchema"))>>)
                     ELSE EmptyArr
              ELSE IF IsObj(fieldSchema) /\ "type" \notin DOMAIN fieldSchema.v
                     THEN Obj([nk \in DOMAIN fieldSchema.v |->
                                 deriveDefaultFromFieldSchema(fieldSchema.v[nk], nk)])
                     ELSE deriveDefaultFromFieldSchema(fieldSchema, key)])

\* meta.defaultData || deriveDefaultDataFromSectionSchema(meta.schema)
defaultDataOf(sectionType) ==
  LET meta == get(schema, <<"sectionTypes", sectionType>>)
  IN OrElse(Child(meta, "defaultData"),
            deriveDefaultDataFromSectionSchema(Child(meta, "schema")))

(***************************************************************************)
(* Section registry operations                                             *)
(***************************************************************************)
SectionTypes == DOMAIN get(schema, <<"sectionTypes">>).v

\* position === undefined
NoPosition == -1

Min2(a, b) == IF a <= b THEN a ELSE b

\* arr.splice(position, 0, item) for 0 <= position
InsertAt(seq, position, item) ==
  LET at == Min2(position, Len(seq))
  IN SubSeq(seq, 1, at) \o <<item>> \o SubSeq(seq, at + 1, Len(seq))

\* arr.splice(index, 1)
RemoveAt(seq, index) == SubSeq(seq, 1, index) \o SubSeq(seq, index + 2, Len(seq))

\* a list returned as spliced, every section with the order it had
RenumberKept(secs) == secs

\* .map((section, index) => ({ ...section, order: (index + 1) * 10 }))
Renumber(secs) == [i \in 1..Len(secs) |-> SpreadWith(secs[i], "order", Num(i * 10))]

\* the updater splices prev itself instead of a copy of it
copySharesBaseNoCopy(shared) == shared

\* [...prev]: the copy is a new array, it never is the array of the base document
copySharesBase(shared) == FALSE

\* the base document after an in-place change of a list that is, or is not,
\* the section array of the loaded document
BaseAfterListWrite(writesBase, newList) ==
  IF writesBase
    THEN set(initialData, <<"pages", pageType, "sections">>, Arr(newList), initialData)
    ELSE initialData

\* an id built from type and clock for every type
newSectionIdStamped(sectionType) ==
  LET baseId == sectionType \o "-" \o ToString(now)
  IN IF hasContext THEN contextSlug \o "-" \o baseId ELSE baseId

\* the id addSection gives to a new section
newSectionId(sectionType) ==
  LET baseId == IF Truthy(get(schema, <<"sectionTypes", sectionType, "singleton">>))
                  THEN sectionType
                  ELSE sectionType \o "-" \o ToString(now)
  IN IF hasContext THEN contextSlug \o "-" \o baseId ELSE baseId

\* newSections after the splice or push of addSection
addSectionSpliced(sectionType, region, position) ==
  LET plainSection ==
        SectionObj(newSectionId(sectionType), sectionType, region,
                   IF position # NoPosition THEN position * 10
                                            ELSE (Len(sections) + 1) * 10,
                   defaultDataOf(sectionType))
      newSection == IF hasContext
                      THEN SpreadWith(plainSection, contextProperty, Str(contextSlug))
                      ELSE plainSection
  IN IF position # NoPosition
       THEN InsertAt(sections, position, newSection)
       ELSE Append(sections, newSection)

\* the registry list returned by the setSections updater of addSection
addSectionList(sectionType, region, position) ==
  IF position # NoPosition
    THEN Renumber(addSectionSpliced(sectionType, region, position))
    ELSE addSectionSpliced(sectionType, region, position)

\* addSection(sectionType, region, position)
applyAddSection(sectionType, region, position) ==
  IF ~Truthy(get(schema, <<"sectionTypes", sectionType>>))
    THEN UNCHANGED <<initialData, editedData, sections, sharesBase, hasStructuralChanges,
                     currentLocale, storage, now, inflight, posted>>
    ELSE /\ sections' = addSectionList(sectionType, region, position)
         /\ sharesBase' = copySharesBase(sharesBase)
         /\ initialData' = BaseAfterListWrite(copySharesBase(sharesBase),
                                              addSectionSpliced(sectionType, region, position))
         /\ hasStructuralChanges' = TRUE
         /\ UNCHANGED <<editedData, currentLocale, storage, now, inflight, posted>>

\* a canAdd that looks at the sections of every page context
canAddAnyContext(typeKey) ==
  LET isAdded == \E i \in 1..Len(sections) : StrIs(Child(sections[i], "type"), typeKey)
  IN IF Truthy(get(schema, <<"sectionTypes", typeKey, "singleton">>))
       THEN ~isAdded ELSE TRUE

\* getAvailableSections()[typeKey].canAdd
canAdd(typeKey) ==
  LET relevantSections ==
        IF hasContext
          THEN SelectSeq(sections,
                         LAMBDA sec : StrIs(Child(sec, contextProperty), contextSlug))
          ELSE sections
      isAdded == \E i \in 1..Len(relevantSections) :
                   StrIs(Child(relevantSections[i], "type"), typeKey)
  IN IF Truthy(get(schema, <<"sectionTypes", typeKey, "singleton">>))
       THEN ~isAdded ELSE TRUE

\* SectionPicker -> handleSelectSection -> addSection(type, 'main', position)
addSection(positions, bound) ==
  \E sectionType \in SectionTypes, position \in positions :
    /\ position <= Len(sections)
    /\ canAdd(sectionType)
    /\ Record(Op("addSection", <<>>, Str(sectionType), newSectionId(sectionType), position),
              bound)
    /\ applyAddSection(sectionType, Str("main"), position)

\* handleMessage, case 'ADD_SECTION': addSection(data.sectionType, data.position);
\* data.position arrives as the region argument and no position is given;
\* the operation is recorded with the position the message carried as path
handleAddSectionMessage(sectionTypes, positions, bound) ==
  \E sectionType \in sectionTypes, position \in positions :
    /\ Record(Op("addSection",
                 IF IsUndef(position) THEN <<>> ELSE <<NumTok(position.v)>>,
                 Str(sectionType), newSectionId(sectionType), NoPosition), bound)
    /\ applyAddSection(sectionType,
                       IF IsUndef(position) THEN Str("main") ELSE position,
                       NoPosition)

SectionIds == {Child(sections[i], "id").v : i \in 1..Len(sections)}

\* the top-level overlay keys removeSection deletes: those equal to
\* "sections.<id>" or starting with "sections.<id>."; an overlay key is one
\* path token and holds no '.', so it starts with neither
purgedKeys(overlay, sectionId) ==
  {key \in DOMAIN overlay.v : key = "sections." \o sectionId}

WithoutKeys(obj, keys) == Obj([key \in (DOMAIN obj.v) \ keys |-> obj.v[key]])

\* removeSection(sectionId)
removeSection(extraIds, bound) ==
  \E sectionId \in SectionIds \cup extraIds :
    /\ Record(Op("removeSection", <<>>, Undef, sectionId, 0), bound)
    /\ sections' = SelectSeq(sections, LAMBDA sec : ~StrIs(Child(sec, "id"), sectionId))
    /\ sharesBase' = FALSE
    /\ editedData' = WithoutKeys(editedData, purgedKeys(editedData, sectionId))
    /\ hasStructuralChanges' = TRUE
    /\ UNCHANGED <<initialData, currentLocale, storage, now, inflight, posted>>

\* prev.findIndex(section => section.id === sectionId), 0-based, -1 when absent
findIndex(secs, sectionId) ==
  IF \E i \in 1..Len(secs) : StrIs(Child(secs[i], "id"), sectionId)
    THEN (CHOOSE i \in 1..Len(secs) :
            /\ StrIs(Child(secs[i], "id"), sectionId)
            /\ \A j \in 1..(i - 1) : ~StrIs(Child(secs[j], "id"), sectionId)) - 1
    ELSE -1

\* two splices that count the target position in the list before the removal
moveSectionSplicedShifted(sectionId, newPosition) ==
  LET currentIndex == findIndex(sections, sectionId)
      target == IF currentIndex < newPosition THEN newPosition - 1 ELSE newPosition
  IN InsertAt(RemoveAt(sections, currentIndex), target, sections[currentIndex + 1])

\* nextSections after the two splices of moveSection
moveSectionSpliced(sectionId, newPosition) ==
  LET currentIndex == findIndex(sections, sectionId)
  IN InsertAt(RemoveAt(sections, currentIndex), newPosition, sections[currentIndex + 1])

\* the list returned by the setSections updater of moveSection
moveSectionList(sectionId, newPosition) ==
  LET currentIndex == findIndex(sections, sectionId)
  IN IF currentIndex = -1 \/ newPosition = currentIndex
       THEN sections
       ELSE Renumber(moveSectionSpliced(sectionId, newPosition))

\* the body of moveSection(sectionId, newPosition)
applyMoveSection(sectionId, newPosition) ==
  LET isNoop == findIndex(sections, sectionId) = -1
                  \/ newPosition = findIndex(sections, sectionId)
  IN /\ sections' = moveSectionList(sectionId, newPosition)
     /\ sharesBase' = IF isNoop THEN sharesBase ELSE copySharesBase(sharesBase)
     /\ initialData' = IF isNoop THEN initialData
                       ELSE BaseAfterListWrite(copySharesBase(sharesBase),
                                               moveSectionSpliced(sectionId, newPosition))
     /\ hasStructuralChanges' = TRUE
     /\ UNCHANGED <<editedData, currentLocale, storage, now, inflight, posted>>

\* moveSection(sectionId, newPosition)
moveSection(extraIds, positions, bound) ==
  \E sectionId \in SectionIds \cup extraIds, newPosition \in positions :
    /\ newPosition <= Len(sections)
    /\ Record(Op("moveSection", <<>>, Undef, sectionId, newPosition), bound)
    /\ applyMoveSection(sectionId, newPosition)

\* .sort((a, b) => a.order - b.order): a stable sort, by insertion
RECURSIVE sortByOrder(_)
sortByOrder(secs) ==
  IF secs = <<>> THEN <<>>
  ELSE LET sorted == sortByOrder(SubSeq(secs, 1, Len(secs) - 1))
           item == secs[Len(secs)]
           ahead == SelectSeq(sorted,
                              LAMBDA sec : Child(sec, "order").v <= Child(item, "order").v)
           behind == SelectSeq(sorted,
                               LAMBDA sec : Child(sec, "order").v > Child(item, "order").v)
       IN ahead \o <<item>> \o behind

\* enabledSections of SectionsRenderer: the enabled sections, sorted by order
enabledSections(live) ==
  sortByOrder(SelectSeq(live, LAMBDA sec : Truthy(Child(sec, "enabled"))))

\* handleDrop of the EditableSection of the target: the dragged section is
\* another one, the target's index is its index among the rendered sections
handleDrop(indicators, bound) ==
  \E d \in 1..Len(enabledSections(getSections)),
     t \in 1..Len(enabledSections(getSections)), dragOverPosition \in indicators :
    LET draggedSectionId == Child(enabledSections(getSections)[d], "id").v
        sectionId == Child(enabledSections(getSections)[t], "id").v
        sectionIndex == t - 1
        newPosition == IF dragOverPosition = "before" THEN sectionIndex
                                                      ELSE sectionIndex + 1
    IN /\ draggedSectionId # sectionId
       /\ Record(Op("handleDrop", <<sectionId>>, Str(dragOverPosition),
                    draggedSectionId, newPosition), bound)
       /\ applyMoveSection(draggedSectionId, newPosition)

(***************************************************************************)
(* Array editor                                                            *)
(***************************************************************************)
RECURSIVE walkPlain(_, _, _)
walkPlain(node, tokens, i) ==
  IF i > Len(tokens) THEN node
  ELSE IF ~Truthy(node) THEN Null
  ELSE walkPlain(Child(node, tokens[i]), tokens, i + 1)

\* resolveArraySchema(arrayPath, schema, pageType); it reads the raw registry
resolveArraySchema(arrayPath) ==
  IF arrayPath = <<>> \/ arrayPath[1] # "sections" \/ Len(arrayPath) < 2 THEN Null
  ELSE LET sectionType == Child(FindSection(sections, arrayPath[2]), "type")
       IN IF ~Truthy(sectionType) THEN Null
          ELSE walkPlain(get(schema, <<"sectionTypes", sectionType.v, "schema">>),
                         Tail2(arrayPath), 1)

RECURSIVE walkItemSchema(_, _, _)
walkItemSchema(node, tokens, i) ==
  IF i > Len(tokens) THEN node
  ELSE IF ~Truthy(node) THEN Null
  ELSE IF StrIs(Child(node, "type"), "array") /\ IsIndex(tokens[i])
         THEN walkItemSchema(OrElse(Child(node, "itemSchema"),
                                    Obj([type |-> Str("string"), editable |-> Bool(TRUE)])),
                             tokens, i + 1)
  ELSE walkItemSchema(Child(node, tokens[i]), tokens, i + 1)

\* resolveArrayItemSchema(arrayPath, schema, pageType)
resolveArrayItemSchema(arrayPath) ==
  IF arrayPath = <<>> \/ arrayPath[1] # "sections" \/ Len(arrayPath) < 2 THEN Null
  ELSE LET sectionType == Child(FindSection(sections, arrayPath[2]), "type")
       IN IF ~Truthy(sectionType) THEN Null
          ELSE LET node == walkItemSchema(
                             get(schema, <<"sectionTypes", sectionType.v, "schema">>),
                             Tail2(arrayPath), 1)
               IN IF StrIs(Child(node, "type"), "array")
                    THEN OrElse(Child(node, "itemSchema"),
                                Obj([type |-> Str("string"), editable |-> Bool(TRUE)]))
                    ELSE node

\* a limit that stops the add only once the array is longer than maxItems
atMaxItemsExceeded(arrayPath) ==
  LET maxItems == Child(resolveArraySchema(arrayPath), "maxItems")
  IN maxItems.k = "n" /\ Len(getArrayFromLiveState(arrayPath, getSections)) > maxItems.v

\* typeof maxItems === 'number' && current.length >= maxItems
atMaxItems(arrayPath) ==
  LET maxItems == Child(resolveArraySchema(arrayPath), "maxItems")
  IN maxItems.k = "n" /\ Len(getArrayFromLiveState(arrayPath, getSections)) >= maxItems.v

\* canAddArrayItem(arrayPath)
canAddArrayItem(arrayPath) == ~atMaxItems(arrayPath)

\* the item addArrayItem appends
newArrayItem(arrayPath) ==
  deriveDefaultItemFromItemSchema(
    OrElse(Child(resolveArraySchema(arrayPath), "itemSchema"),
           resolveArrayItemSchema(arrayPath)))

\* the lists an EditableList renders: the given relative paths that hold an
\* array in the live view of a registry section
RenderedArrays(relPaths) ==
  {<<"sections", Child(getSections[i], "id").v>> \o r :
     <<i, r>> \in {q \in (1..Len(sections)) \X relPaths :
                     IsArr(get(Child(getSections[q[1]], "data"), q[2]))}}

Unchanged == UNCHANGED <<initialData, editedData, sections, sharesBase,
                         hasStructuralChanges, currentLocale, storage, now,
                         inflight, posted>>

\* addArrayItem appending to the registry's array instead of the live one
applyAddArrayItemFromBase(arrayPath) ==
  IF atMaxItems(arrayPath)
    THEN Unchanged
    ELSE applyUpdateField(arrayPath,
           Arr(Append(getArrayFromLiveState(arrayPath, sections),
                      newArrayItem(arrayPath))))

\* the body of addArrayItem(arrayPath)
applyAddArrayItem(arrayPath) ==
  IF atMaxItems(arrayPath)
    THEN Unchanged
    ELSE applyUpdateField(arrayPath,
           Arr(Append(getArrayFromLiveState(arrayPath, getSections),
                      newArrayItem(arrayPath))))

\* addArrayItem(arrayPath) from the list editor of a rendered array
addArrayItem(relPaths, bound) ==
  \E arrayPath \in RenderedArrays(relPaths) :
    /\ Record(Op("addArrayItem", arrayPath, Undef, "", 0), bound)
    /\ applyAddArrayItem(arrayPath)

\* addArrayItem(arrayPath) called with a path a component was given
addArrayItemCall(arrayPaths, bound) ==
  \E arrayPath \in arrayPaths :
    /\ Record(Op("addArrayItem", arrayPath, Undef, "", 0), bound)
    /\ applyAddArrayItem(arrayPath)

\* removeArrayItem(arrayPath, index)
removeArrayItem(relPaths, indices, bound) ==
  \E arrayPath \in RenderedArrays(relPaths), index \in indices :
    LET current == getArrayFromLiveState(arrayPath, getSections)
    IN /\ Record(Op("removeArrayItem", arrayPath, Undef, "", index), bound)
       /\ IF index < 0 \/ index >= Len(current)
            THEN Unchanged
            ELSE applyUpdateField(arrayPath, Arr(RemoveAt(current, index)))

\* a move that exchanges the items at from and to
moveArrayItemSwapped(relPaths, indices, bound) ==
  \E arrayPath \in RenderedArrays(relPaths), from \in indices, to \in indices :
    LET current == getArrayFromLiveState(arrayPath, getSections)
    IN /\ Record(Op("moveArrayItem", arrayPath, Num(from), "", to), bound)
       /\ IF from = to \/ from < 0 \/ from >= Len(current) \/ to < 0 \/ to >= Len(current)
            THEN Unchanged
            ELSE applyUpdateField(arrayPath,
                   Arr([current EXCEPT ![from + 1] = current[to + 1],
                                       ![to + 1] = current[from + 1]]))

\* moveArrayItem(arrayPath, from, to)
moveArrayItem(relPaths, indices, bound) ==
  \E arrayPath \in RenderedArrays(relPaths), from \in indices, to \in indices :
    LET current == getArrayFromLiveState(arrayPath, getSections)
    IN /\ Record(Op("moveArrayItem", arrayPath, Num(from), "", to), bound)
       /\ IF from = to \/ from < 0 \/ from >= Len(current) \/ to < 0 \/ to >= Len(current)
            THEN Unchanged
            ELSE applyUpdateField(arrayPath,
                   Arr(InsertAt(RemoveAt(current, from), to, current[from + 1])))

(***************************************************************************)
(* Publish payload                                                         *)
(***************************************************************************)
\* flattenLocalizedForLocale(data, locale)
RECURSIVE flattenLocalizedForLocale(_, _)
flattenLocalizedForLocale(data, locale) ==
  IF IsArr(data)
    THEN Arr([i \in 1..Len(data.v) |-> flattenLocalizedForLocale(data.v[i], locale)])
  ELSE IF IsObj(data)
    THEN LET keys == DOMAIN data.v
             looksLikeLocalizedMap == keys # {} /\ \A key \in keys : IsStr(data.v[key])
         IN IF looksLikeLocalizedMap
               /\ (~IsUndef(Child(data, "en")) \/ ~IsUndef(Child(data, locale)))
              THEN Coalesce(Child(data, locale), Coalesce(Child(data, "en"), Str("")))
              ELSE Obj([key \in keys |-> flattenLocalizedForLocale(data.v[key], locale)])
  ELSE data

\* a buildPublishPayload that starts the payload from the overlay alone
buildPublishPayloadOverlayOnly(baseSiteData, initial, edited, page, locale, liveSections) ==
  LET payload == deepMerge(EmptyObj, OrElse(edited, EmptyObj))
      flattened == Arr([i \in 1..Len(liveSections) |->
                     SpreadWith(liveSections[i], "data",
                       flattenLocalizedForLocale(Child(liveSections[i], "data"), locale))])
      spliced == set(payload, <<"pages", page, "sections">>, flattened, payload)
  IN WithoutKeys(spliced, {"sections"})

\* buildPublishPayload({baseSiteData, initialData, editedData, pageType,
\* currentLocale, getSections})
buildPublishPayload(baseSiteData, initial, edited, page, locale, liveSections) ==
  LET mergedData == deepMerge(initial, OrElse(edited, EmptyObj))
      payload == deepMerge(baseSiteData, mergedData)
      flattened == Arr([i \in 1..Len(liveSections) |->
                     SpreadWith(liveSections[i], "data",
                       flattenLocalizedForLocale(Child(liveSections[i], "data"), locale))])
      spliced == set(payload, <<"pages", page, "sections">>, flattened, payload)
  IN WithoutKeys(spliced, {"sections"})

\* a publishChanges that hands the raw registry to buildPublishPayload
currentPayloadRawRegistry ==
  buildPublishPayload(initialData, initialData, editedData, pageType, currentLocale,
                      sections)

\* the payload publishChanges builds in the current state
currentPayload ==
  buildPublishPayload(initialData, initialData, editedData, pageType, currentLocale,
                      getSections)

(***************************************************************************)
(* Publish and discard.  USE_HYBRID_PUBLISH is true: publishChanges posts  *)
(* the payload to the wrapper, which answers with PUBLISH_SUCCESS or       *)
(* PUBLISH_ERROR; handleMessage processes the answer.                      *)
(***************************************************************************)
\* publishes that may be awaiting the wrapper's answer at once
MaxInflight == 1

\* publishChanges(), hybrid branch
publishChanges(bound) ==
  /\ Len(inflight) < MaxInflight
  /\ Record(Op("publishChanges", <<>>, Undef, "", 0), bound)
  /\ inflight' = Append(inflight, currentPayload)
  /\ posted' = "PUBLISH_PAYLOAD_READY"
  /\ UNCHANGED <<initialData, editedData, sections, sharesBase, hasStructuralChanges,
                 currentLocale, storage, now>>

\* a PUBLISH_SUCCESS handler that resets the overlay and leaves the cache entry
handlePublishSuccessKeepsCache(bound) ==
  /\ inflight # <<>>
  /\ Record(Op("publishSuccess", <<>>, Undef, "", 0), bound)
  /\ inflight' = Tail(inflight)
  /\ editedData' = EmptyObj
  /\ hasStructuralChanges' = FALSE
  /\ posted' = "PUBLISH_SUCCESS"
  /\ UNCHANGED <<initialData, sections, sharesBase, currentLocale, storage, now>>

\* handleMessage, case 'PUBLISH_SUCCESS'
handlePublishSuccess(bound) ==
  /\ inflight # <<>>
  /\ Record(Op("publishSuccess", <<>>, Undef, "", 0), bound)
  /\ inflight' = Tail(inflight)
  /\ editedData' = EmptyObj
  /\ hasStructuralChanges' = FALSE
  /\ storage' = Undef
  /\ posted' = "PUBLISH_SUCCESS"
  /\ UNCHANGED <<initialData, sections, sharesBase, currentLocale, now>>

\* a PUBLISH_ERROR handler that clears the session as PUBLISH_SUCCESS does
handlePublishErrorClears(bound) ==
  /\ inflight # <<>>
  /\ Record(Op("publishError", <<>>, Undef, "", 0), bound)
  /\ inflight' = Tail(inflight)
  /\ editedData' = EmptyObj
  /\ storage' = Undef
  /\ posted' = "PUBLISH_ERROR"
  /\ UNCHANGED <<initialData, sections, sharesBase, hasStructuralChanges,
                 currentLocale, now>>

\* handleMessage, case 'PUBLISH_ERROR'
handlePublishError(bound) ==
  /\ inflight # <<>>
  /\ Record(Op("publishError", <<>>, Undef, "", 0), bound)
  /\ inflight' = Tail(inflight)
  /\ posted' = "PUBLISH_ERROR"
  /\ UNCHANGED <<initialData, editedData, sections, sharesBase, hasStructuralChanges,
                 currentLocale, storage, now>>

\* discardChanges()
discardChanges(bound) ==
  /\ Record(Op("discardChanges", <<>>, Undef, "", 0), bound)
  /\ editedData' = EmptyObj
  /\ sections' = getInitialSections.v
  /\ sharesBase' = TRUE
  /\ hasStructuralChanges' = FALSE
  /\ storage' = Undef
  /\ posted' = "DISCARD_SUCCESS"
  /\ UNCHANGED <<initialData, currentLocale, now, inflight>>

\* largest value of the clock
MaxNow == 2

\* time passes between two operations
Tick ==
  /\ now < MaxNow
  /\ now' = now + 1
  /\ UNCHANGED <<initialData, editedData, sections, sharesBase, hasStructuralChanges,
                 currentLocale, storage, inflight, posted, pageType, contextSlug, arg,
                 result, toolbar, steps, last, prev, pre, tracked, added>>

(***************************************************************************)
(* The provider of src/lib/preview-context.tsx (service and blog pages):   *)
(* same overlay, reads and updateField; structural operations write the    *)
(* section list into the overlay and there is no hasStructuralChanges.     *)
(***************************************************************************)
\* sectionsPath of the structural operations
sectionsPath ==
  IF pageType # "home" THEN <<"pages", pageType, "sections">> ELSE <<"sections">>

\* addSection(sectionType, region, position), followed by
\* updateField(sectionsPath, getSections()) with the list of this render
addSectionLegacy(positions, bound) ==
  \E sectionType \in SectionTypes, position \in positions :
    /\ position <= Len(sections)
    /\ canAdd(sectionType)
    /\ Record(Op("addSection", <<>>, Str(sectionType), newSectionId(sectionType), position),
              bound)
    /\ sections' = addSectionList(sectionType, Str("main"), position)
    /\ sharesBase' = copySharesBase(sharesBase)
    /\ initialData' = BaseAfterListWrite(copySharesBase(sharesBase),
                                         addSectionSpliced(sectionType, Str("main"), position))
    /\ editedData' = updateFieldOverlay(sectionsPath, Arr(getSections))
    /\ storage' = Jsonify(updateFieldOverlay(sectionsPath, Arr(getSections)))
    /\ UNCHANGED <<hasStructuralChanges, currentLocale, now, inflight, posted>>

\* removeSection(sectionId)
removeSectionLegacy(bound) ==
  \E sectionId \in SectionIds :
    LET nextSections == SelectSeq(sections, LAMBDA sec : ~StrIs(Child(sec, "id"), sectionId))
    IN /\ Record(Op("removeSection", <<>>, Undef, sectionId, 0), bound)
       /\ sections' = nextSections
       /\ sharesBase' = FALSE
       /\ editedData' = set(editedData, sectionsPath, Arr(nextSections), initialData)
       /\ UNCHANGED <<initialData, hasStructuralChanges, currentLocale, storage, now,
                      inflight, posted>>

\* moveSection(sectionId, newPosition)
moveSectionLegacy(positions, bound) ==
  \E sectionId \in SectionIds, newPosition \in positions :
    LET isNoop == newPosition = findIndex(sections, sectionId)
    IN /\ newPosition <= Len(sections)
       /\ Record(Op("moveSection", <<>>, Undef, sectionId, newPosition), bound)
       /\ sections' = moveSectionList(sectionId, newPosition)
       /\ sharesBase' = IF isNoop THEN sharesBase ELSE copySharesBase(sharesBase)
       /\ initialData' = IF isNoop THEN initialData
                         ELSE BaseAfterListWrite(copySharesBase(sharesBase),
                                                 moveSectionSpliced(sectionId, newPosition))
       /\ editedData' = IF isNoop THEN editedData
                        ELSE set(editedData, sectionsPath,
                                 Arr(moveSectionList(sectionId, newPosition)), initialData)
       /\ UNCHANGED <<hasStructuralChanges, currentLocale, storage, now, inflight, posted>>

\* discardChanges()
discardChangesLegacy(bound) ==
  /\ Record(Op("discardChanges", <<>>, Undef, "", 0), bound)
  /\ editedData' = EmptyObj
  /\ sections' = OrElse(get(initialData, <<"sections">>), EmptyArr).v
  /\ sharesBase' = FALSE
  /\ storage' = Undef
  /\ UNCHANGED <<initialData, hasStructuralChanges, currentLocale, now, inflight, posted>>

(***************************************************************************)
(* Inputs and specifications                                               *)
(***************************************************************************)
SitePaths == {<<"site", "brand">>}

\* relative paths of the fields a section renders
FieldPaths ==
  {<<"title">>, <<"tagline">>, <<"text">>,
   <<"items", "0", "name">>, <<"items", "1", "name">>, <<"items", "0", "cta", "label">>}

ArrayPaths == {<<"items">>}

EditValues == {"", "x"}

\* operations of a field-editing session
MaxEditSteps == 3

NextEdit ==
  \/ updateField(SitePaths, FieldPaths, EditValues, MaxEditSteps)
  \/ createTranslation(SitePaths, {<<"title">>, <<"tagline">>}, Locales, {"x"},
                       MaxEditSteps)
  \/ setCurrentLocale(MaxEditSteps)
  \/ addArrayItem(ArrayPaths, MaxEditSteps)
  \/ removeArrayItem(ArrayPaths, {0, 1}, MaxEditSteps)
  \/ moveArrayItem(ArrayPaths, {0, 1}, MaxEditSteps)

SpecEdit == Init /\ [][NextEdit]_vars

\* array paths that resolve to no array: a section the registry does not
\* hold, a path outside sections.*
UnresolvedArrayPaths == {<<"sections", "ghost", "items">>, <<"site", "tags">>}

\* operations of a session on the list editor of a section array
MaxArraySteps == 4

NextArray ==
  \/ updateField({}, {<<"items", "0", "name">>, <<"items", "1", "name">>}, {"x"},
                 MaxArraySteps)
  \/ addArrayItem(ArrayPaths, MaxArraySteps)
  \/ addArrayItemCall(UnresolvedArrayPaths, MaxArraySteps)
  \/ removeArrayItem(ArrayPaths, {0, 1, 2}, MaxArraySteps)
  \/ moveArrayItem(ArrayPaths, {0, 1, 2}, MaxArraySteps)

SpecArray == Init /\ [][NextArray]_vars

\* section ids no section of the registry has (a REMOVE_SECTION message)
UnknownIds == {"ghost"}

\* operations of a session of field edits and structural operations
MaxStructSteps == 4

NextStruct ==
  \/ updateField({}, {<<"tagline">>, <<"items", "1", "name">>}, {"x"}, MaxStructSteps)
  \/ addSection({0, 1, 2}, MaxStructSteps)
  \/ removeSection(UnknownIds, MaxStructSteps)
  \/ moveSection({}, {0, 1}, MaxStructSteps)
  \/ handleAddSectionMessage({"hero", "banner"}, {Undef}, MaxStructSteps)
  \/ Tick

SpecStruct == Init /\ [][NextStruct]_vars

\* operations of a whole session
MaxSteps == 3

Next ==
  \/ updateField(SitePaths, {<<"title">>, <<"items", "0", "name">>}, {"x"}, MaxSteps)
  \/ addSection({0, 2}, MaxSteps)
  \/ removeSection({}, MaxSteps)
  \/ moveSection({}, {0, 1}, MaxSteps)
  \/ addArrayItem(ArrayPaths, MaxSteps)
  \/ removeArrayItem(ArrayPaths, {0}, MaxSteps)
  \/ moveArrayItem(ArrayPaths, {0, 1}, MaxSteps)
  \/ setCurrentLocale(MaxSteps)
  \/ publishChanges(MaxSteps)
  \/ handlePublishSuccess(MaxSteps)
  \/ handlePublishError(MaxSteps)
  \/ discardChanges(MaxSteps)
  \/ Tick

Spec == Init /\ [][Next]_vars

\* number of operations of the sessions of the src/lib provider
MaxLegacySteps == 3

NextLegacy ==
  \/ updateField(SitePaths, {<<"title">>, <<"tagline">>, <<"items", "0", "name">>},
                 EditValues, MaxLegacySteps)
  \/ addSectionLegacy({0, 2}, MaxLegacySteps)
  \/ removeSectionLegacy(MaxLegacySteps)
  \/ moveSectionLegacy({0, 1}, MaxLegacySteps)
  \/ discardChangesLegacy(MaxLegacySteps)
  \/ Tick

SpecLegacy == Init /\ [][NextLegacy]_vars

\* operations of a session on the home page or on the page of service "tax"
\* of the multi-page document
MaxPagesSteps == 3

InitPages ==
  /\ currentLocale \in Locales
  /\ \E context \in {<<"home", "">>, <<"service-detail", "tax">>} :
       Mounted(SiteDocument, context[1], context[2])
  /\ arg = NoArg
  /\ result = NoResult

NextPages ==
  \/ updateField(SitePaths, {<<"title">>, <<"tagline">>}, {"x"}, MaxPagesSteps)
  \/ addSection({0, 2}, MaxPagesSteps)
  \/ handleAddSectionMessage({"hero", "banner"}, {Undef, Num(0)}, MaxPagesSteps)
  \/ removeSection({}, MaxPagesSteps)
  \/ moveSection({}, {0, 1}, MaxPagesSteps)
  \/ publishChanges(MaxPagesSteps)

SpecPages == InitPages /\ [][NextPages]_vars

(***************************************************************************)
(* Direct calls of the locale functions: the argument is a locale map over *)
(* three locale codes and a locale; the provider stays as mounted.         *)
(***************************************************************************)
CallLocales == {"en", "fr", "de"}
CallTexts == {"", "A", "B"}

\* the non-empty locale maps over CallLocales
LocaleMaps ==
  {Obj(m) : m \in UNION {[codes -> {Str(t) : t \in CallTexts}] :
                           codes \in (SUBSET CallLocales) \ {{}}}}

\* section data holding the locale map as a field and inside an array item,
\* next to values that are not locale maps
DataWith(title) ==
  Obj([title |-> title, tagline |-> Str("T"), count |-> Num(3),
       items |-> Arr(<<Obj([name |-> title, cta |-> Obj([label |-> Str("Go")])])>>)])

InitCall ==
  /\ currentLocale = DefaultLocale
  /\ Mounted(BaseDocument, "home", "")
  /\ arg \in [raw : LocaleMaps, locale : CallLocales]
  /\ result = NoResult

\* everything but the result of the call
Provider ==
  <<initialData, editedData, sections, sharesBase, hasStructuralChanges, currentLocale,
    storage, now, inflight, posted, pageType, contextSlug, arg, toolbar, steps, last,
    prev, pre, tracked, added>>

callGetLocalizedValue ==
  /\ result = NoResult
  /\ result' = [fn |-> "getLocalizedValue", out |-> getLocalizedValue(arg.raw, arg.locale)]
  /\ UNCHANGED Provider

callFlattenLocalizedForLocale ==
  /\ result = NoResult
  /\ result' = [fn |-> "flattenLocalizedForLocale",
                out |-> flattenLocalizedForLocale(DataWith(arg.raw), arg.locale)]
  /\ UNCHANGED Provider

NextCall == callGetLocalizedValue \/ callFlattenLocalizedForLocale

SpecCall == InitCall /\ [][NextCall]_vars

(***************************************************************************)
(* Direct calls of the path functions: set(root, path, value, base) and    *)
(* then get on its result with the same path; the provider stays as        *)
(* mounted.                                                                *)
(***************************************************************************)
\* structures a path is written into: nothing, objects, arrays (one with a
\* hole), an object holding an array
PathRoots ==
  {Undef, EmptyObj, EmptyArr,
   Obj([a |-> Str("p"), b |-> Str("q")]),
   Obj([a |-> Arr(<<Str("p")>>)]),
   Obj([a |-> Obj([b |-> Str("p"), c |-> Str("q")])]),
   Arr(<<Str("p")>>),
   Arr(<<Undef, Str("q")>>),
   Arr(<<Str("p"), Undef, Undef, Str("s")>>)}

\* the structures gaps are filled from
PathBases ==
  {Undef,
   Arr(<<Str("a"), Str("b"), Str("c")>>),
   Obj([a |-> Arr(<<Str("a"), Str("b"), Str("c")>>)]),
   Obj([a |-> Obj([b |-> Str("a"), d |-> Str("d")])])}

\* paths of identifier and index tokens
PathPaths ==
  {<<"a">>, <<"0">>, <<"2">>, <<"a", "b">>, <<"a", "1">>, <<"a", "2">>,
   <<"1", "a">>, <<"a", "0", "b">>, <<"c", "d">>}

PathValues == {Undef, Null, Str("x"), Str(""), Obj([b |-> Str("x")]), Arr(<<Str("x")>>)}

InitPath ==
  /\ currentLocale = DefaultLocale
  /\ Mounted(BaseDocument, "home", "")
  /\ arg \in [root : PathRoots, path : PathPaths, value : PathValues, base : PathBases]
  /\ result = NoResult

callSet ==
  /\ result = NoResult
  /\ result' = [fn |-> "set", out |-> set(arg.root, arg.path, arg.value, arg.base)]
  /\ UNCHANGED Provider

\* get(written, path) on the structure the call of set returned
callGet ==
  /\ result.fn = "set"
  /\ result' = [fn |-> "get", out |-> get(result.out, arg.path), written |-> result.out]
  /\ UNCHANGED Provider

NextPath == callSet \/ callGet

SpecPath == InitPath /\ [][NextPath]_vars

(***************************************************************************)
(* The toolbar (ToolbarOverlay) on the window of the theme.  Its Publish   *)
(* button posts PUBLISH_CHANGES unless isPublishing is set; the flag is    *)
(* set by a PUBLISH_START message and reset by PUBLISH_SUCCESS and         *)
(* PUBLISH_ERROR.                                                          *)
(***************************************************************************)
\* handlePublish of the toolbar, and handleMessage case 'PUBLISH_CHANGES'
\* with the hybrid publishChanges(): the payload is posted as
\* PUBLISH_PAYLOAD_READY, a message the toolbar has no case for
toolbarHandlePublish(bound) ==
  /\ RecordStep(Op("publishChanges", <<>>, Undef, "", 0), bound)
  /\ toolbar' = toolbar
  /\ IF toolbar.isPublishing
       THEN UNCHANGED <<inflight, posted>>
       ELSE /\ inflight' = Append(inflight, currentPayload)
            /\ posted' = "PUBLISH_PAYLOAD_READY"
  /\ UNCHANGED <<initialData, editedData, sections, sharesBase, hasStructuralChanges,
                 currentLocale, storage, now>>

\* the wrapper's PUBLISH_SUCCESS, received by handleMessage and by the
\* toolbar's onMessage
toolbarPublishSuccess(bound) ==
  /\ inflight # <<>>
  /\ RecordStep(Op("publishSuccess", <<>>, Undef, "", 0), bound)
  /\ toolbar' = [toolbar EXCEPT !.isPublishing = FALSE, !.finished = @ + 1]
  /\ inflight' = Tail(inflight)
  /\ editedData' = EmptyObj
  /\ hasStructuralChanges' = FALSE
  /\ storage' = Undef
  /\ posted' = "PUBLISH_SUCCESS"
  /\ UNCHANGED <<initialData, sections, sharesBase, currentLocale, now>>

\* the wrapper's PUBLISH_ERROR, received by handleMessage and by the
\* toolbar's onMessage
toolbarPublishError(bound) ==
  /\ inflight # <<>>
  /\ RecordStep(Op("publishError", <<>>, Undef, "", 0), bound)
  /\ toolbar' = [toolbar EXCEPT !.isPublishing = FALSE, !.finished = @ + 1]
  /\ inflight' = Tail(inflight)
  /\ posted' = "PUBLISH_ERROR"
  /\ UNCHANGED <<initialData, editedData, sections, sharesBase, hasStructuralChanges,
                 currentLocale, storage, now>>

\* operations of a session with the toolbar, hybrid publish
MaxToolbarSteps == 4

NextToolbar ==
  \/ updateField(SitePaths, {<<"title">>, <<"tagline">>}, {"x"}, MaxToolbarSteps)
  \/ toolbarHandlePublish(MaxToolbarSteps)
  \/ toolbarPublishSuccess(MaxToolbarSteps)
  \/ toolbarPublishError(MaxToolbarSteps)

SpecToolbar == Init /\ [][NextToolbar]_vars

(***************************************************************************)
(* The legacy publish flow (the branch of publishChanges after             *)
(* USE_HYBRID_PUBLISH): PUBLISH_START, the fetch of /api/sites/publish,    *)
(* then PUBLISH_SUCCESS or, from the catch block, PUBLISH_ERROR.           *)
(***************************************************************************)
\* handlePublish of the toolbar, and handleMessage case 'PUBLISH_CHANGES'
\* with the legacy publishChanges() up to its await fetch(...)
legacyPublishStart(bound) ==
  /\ RecordStep(Op("publishChanges", <<>>, Undef, "", 0), bound)
  /\ IF toolbar.isPublishing
       THEN UNCHANGED <<inflight, posted, toolbar>>
       ELSE /\ inflight' = Append(inflight, currentPayload)
            /\ posted' = "PUBLISH_START"
            /\ toolbar' = [toolbar EXCEPT !.isPublishing = TRUE, !.started = @ + 1]
  /\ UNCHANGED <<initialData, editedData, sections, sharesBase, hasStructuralChanges,
                 currentLocale, storage, now>>

\* a catch block that logs the error and posts nothing
legacyFetchFailsSilent(bound) ==
  /\ inflight # <<>>
  /\ RecordStep(Op("publishError", <<>>, Undef, "", 0), bound)
  /\ inflight' = Tail(inflight)
  /\ UNCHANGED <<initialData, editedData, sections, sharesBase, hasStructuralChanges,
                 currentLocale, storage, now, posted, toolbar>>

\* the fetch throws, or res.ok is false: the catch block posts PUBLISH_ERROR
legacyFetchFails(bound) ==
  /\ inflight # <<>>
  /\ RecordStep(Op("publishError", <<>>, Undef, "", 0), bound)
  /\ inflight' = Tail(inflight)
  /\ posted' = "PUBLISH_ERROR"
  /\ toolbar' = [toolbar EXCEPT !.isPublishing = FALSE, !.finished = @ + 1]
  /\ UNCHANGED <<initialData, editedData, sections, sharesBase, hasStructuralChanges,
                 currentLocale, storage, now>>

\* the fetch returns with res.ok: PUBLISH_SUCCESS is posted, edits and
\* autosave are reset
legacyFetchOk(bound) ==
  /\ inflight # <<>>
  /\ RecordStep(Op("publishSuccess", <<>>, Undef, "", 0), bound)
  /\ inflight' = Tail(inflight)
  /\ posted' = "PUBLISH_SUCCESS"
  /\ toolbar' = [toolbar EXCEPT !.isPublishing = FALSE, !.finished = @ + 1]
  /\ editedData' = EmptyObj
  /\ hasStructuralChanges' = FALSE
  /\ storage' = Undef
  /\ UNCHANGED <<initialData, sections, sharesBase, currentLocale, now>>

\* operations of a session with the toolbar, legacy publish; an edit or a
\* click leaves room for the answer of the fetch
MaxLegacyPublishSteps == 4

NextLegacyPublish ==
  \/ /\ steps + 1 < MaxLegacyPublishSteps
     /\ updateField(SitePaths, {<<"title">>, <<"tagline">>}, {"x"}, MaxLegacyPublishSteps)
  \/ /\ steps + 1 < MaxLegacyPublishSteps
     /\ legacyPublishStart(MaxLegacyPublishSteps)
  \/ legacyFetchOk(MaxLegacyPublishSteps)
  \/ legacyFetchFails(MaxLegacyPublishSteps)

\* the network call returns or fails
SpecLegacyPublish ==
  /\ Init
  /\ [][NextLegacyPublish]_vars
  /\ WF_vars(legacyFetchOk(MaxLegacyPublishSteps) \/ legacyFetchFails(MaxLegacyPublishSteps))

\* operations of a session of drag and drop on the rendered sections
MaxDragSteps == 3

NextDrag ==
  \/ addSection({0, 1, 2}, MaxDragSteps)
  \/ handleDrop({"before", "after"}, MaxDragSteps)
  \/ Tick

SpecDrag == Init /\ [][NextDrag]_vars

(***************************************************************************)
(* Properties                                                              *)
(***************************************************************************)
IsPrefix(p, q) == Len(p) <= Len(q) /\ SubSeq(q, 1, Len(p)) = p

\* the effective string of a stored value for a locale (plain string, or
\* locale map with fallback to the default locale)
Resolved(raw, locale) ==
  IF IsStr(raw) THEN raw
  ELSE IF IsObj(raw)
         THEN Coalesce(Child(raw, locale), Coalesce(Child(raw, DefaultLocale), Str("")))
  ELSE Str("")

\* the value the live view holds at a section-scoped path
LiveValue(path) ==
  get(Child(FindSection(getSections, path[2]), "data"), Tail2(path))

\* C1: after updateField(p1, v1) followed by updateField(p2, v2) in the same
\* locale, with neither path a prefix of the other, getValue(p1) is v1 and
\* getValue(p2) is v2.
C1_SiblingEditsKept ==
  (/\ prev.op = "updateField" /\ last.op = "updateField"
   /\ prev.loc = last.loc /\ last.loc = currentLocale
   /\ ~IsPrefix(prev.path, last.path) /\ ~IsPrefix(last.path, prev.path))
  => (getValue(prev.path) = prev.val /\ getValue(last.path) = last.val)

\* C8: immediately after updateField(path, v) on a string field, getValue(path)
\* in the same active locale returns v.
C8_ReadYourWrites ==
  last.op = "updateField" => getValue(last.path) = last.val

\* C9: for a section-scoped path without overlay entry, getValue returns the
\* value of the live section's data, resolved for the active locale when the
\* field is localized.
C9_SectionPathReadsLiveData ==
  \A path \in RenderedPaths({}, FieldPaths) :
    IsUndef(get(editedData, path)) =>
      getValue(path) = IF IsLocalized(getFieldSchema(path))
                         THEN Resolved(LiveValue(path), currentLocale)
                         ELSE LiveValue(path)

\* position of the first array index token of a section-scoped path, 0 if none
FirstIndexPos(path) ==
  IF \E i \in 3..Len(path) : IsIndex(path[i])
    THEN CHOOSE i \in 3..Len(path) :
           IsIndex(path[i]) /\ \A j \in 3..(i - 1) : ~IsIndex(path[j])
    ELSE 0

\* the live array an item path points into, in the state before the last
\* operation and now
ArrayBefore(path) ==
  getArrayFromLiveState(SubSeq(path, 1, FirstIndexPos(path) - 1),
                        MergedSections(pre.sections, pre.editedData))

ArrayNow(path) ==
  getArrayFromLiveState(SubSeq(path, 1, FirstIndexPos(path) - 1), getSections)

IsItemEdit(op) ==
  /\ op.op = "updateField"
  /\ Len(op.path) >= 4
  /\ op.path[1] = "sections"
  /\ FirstIndexPos(op.path) > 0

\* C2: after updateField on a path inside item i of a section array of live
\* length n, the live array still has length n and every item at an index
\* other than i is unchanged.
C2_ItemEditKeepsOtherItems ==
  (IsItemEdit(last) /\ TokNum(last.path[FirstIndexPos(last.path)]) < Len(ArrayBefore(last.path)))
  => /\ Len(ArrayNow(last.path)) = Len(ArrayBefore(last.path))
     /\ \A j \in 1..Len(ArrayBefore(last.path)) :
          j # TokNum(last.path[FirstIndexPos(last.path)]) + 1
            => ArrayNow(last.path)[j] = ArrayBefore(last.path)[j]

\* the section with the given id in a published (or live) section list
SectionOf(list, id) == FindSection(list, id)

PublishedSections(payload) ==
  LET list == get(payload, <<"pages", pageType, "sections">>)
  IN IF IsArr(list) THEN list.v ELSE <<>>

\* the stored value carries the edit: the string itself, or a locale map
\* holding it for the locale of the edit
CarriesEdit(raw, op) ==
  IF IsLocalized(getFieldSchema(op.path))
    THEN IsObj(raw) /\ Child(raw, op.loc) = op.val
    ELSE raw = op.val

\* C3: a field edit made on section X survives any later addSection,
\* moveSection or removeSection that targets other sections: getSections
\* still returns X with the edited value, the publish payload built afterwards
\* carries that value in X's data, and the newly added sections carry their
\* schema's defaultData.
C3_EditSurvivesStructuralOps ==
  IsSectionEdit(tracked) =>
    /\ CarriesEdit(LiveValue(tracked.path), tracked)
    /\ get(Child(SectionOf(PublishedSections(currentPayload), tracked.path[2]), "data"),
           Tail2(tracked.path)) = tracked.val
    /\ \A id \in added :
         \A i \in 1..Len(PublishedSections(currentPayload)) :
           LET sec == PublishedSections(currentPayload)[i]
           IN StrIs(Child(sec, "id"), id)
                => Child(sec, "data") = defaultDataOf(Child(sec, "type").v)

\* C5: after removeSection(id) the overlay holds no entry under sections.<id>,
\* and a section added again with the same id shows its default data.
C5_RemovePurgesOverlay ==
  /\ last.op = "removeSection" => IsUndef(get(editedData, <<"sections", last.id>>))
  /\ (prev.op = "removeSection" /\ last.op = "addSection" /\ last.id = prev.id)
       => Child(FindSection(getSections, last.id), "data") = defaultDataOf(last.val.v)

\* C4: an edit applied while a publish is in flight, after the payload
\* snapshot was taken, is still in the overlay when that publish succeeds.
C4_MidPublishEditKept ==
  (prev.op = "updateField" /\ prev.mid /\ last.op = "publishSuccess")
  => (~IsUndef(get(editedData, prev.path)) /\ hasChanges)

\* the section list of the current page in the base document
BasePageSections == get(BaseDocument, <<"pages", pageType, "sections">>).v

\* C6: after any sequence of field edits and structural operations followed
\* by discard(), the overlay is empty, the durable cache entry is removed,
\* hasChanges is false and getSections() is the base document's section list
\* of the current page.
C6_DiscardResets ==
  last.op = "discardChanges"
  => /\ editedData = EmptyObj
     /\ storage = Undef
     /\ ~hasChanges
     /\ getSections = BasePageSections

\* a discard applied to a session holding field edits and a changed registry
C6_Witness ==
  /\ last.op = "discardChanges"
  /\ pre.editedData # EmptyObj
  /\ pre.storage # Undef
  /\ pre.sections # BasePageSections
  /\ pre.hasStructuralChanges

Collapsed(m, locale) ==
  Coalesce(Child(m, locale), Coalesce(Child(m, DefaultLocale), Str("")))

\* C12: publish flattening replaces every locale map m in a section's data
\* by m[activeLocale] ?? m[defaultLocale] ?? "" (the empty string when m
\* holds neither locale) and leaves every other value unchanged.
C12_FlattenCollapsesLocaleMaps ==
  result.fn = "flattenLocalizedForLocale"
  => result.out = DataWith(Collapsed(arg.raw, arg.locale))

\* C16: for a locale-map raw value, the resolved value is
\* raw[locale] ?? raw[defaultLocale] ?? "", isTranslated is (locale in raw),
\* isFallback is (not isTranslated and defaultLocale in raw) and
\* availableLocales is keys(raw).
C16_ResolveLocalizedValue ==
  result.fn = "getLocalizedValue"
  => /\ result.out.value = Collapsed(arg.raw, arg.locale)
     /\ result.out.isTranslated = (arg.locale \in DOMAIN arg.raw.v)
     /\ result.out.isFallback = (arg.locale \notin DOMAIN arg.raw.v
                                   /\ DefaultLocale \in DOMAIN arg.raw.v)
     /\ result.out.availableLocales = DOMAIN arg.raw.v

\* a locale map: a non-empty map of locale code -> string
IsLocaleMap(x) ==
  /\ IsObj(x)
  /\ DOMAIN x.v # {}
  /\ DOMAIN x.v \subseteq Locales
  /\ \A code \in DOMAIN x.v : IsStr(x.v[code])

\* some value inside x, or x itself, is a locale map
RECURSIVE HoldsLocaleMap(_)
HoldsLocaleMap(x) ==
  \/ IsLocaleMap(x)
  \/ IsObj(x) /\ \E key \in DOMAIN x.v : HoldsLocaleMap(x.v[key])
  \/ IsArr(x) /\ \E i \in 1..Len(x.v) : HoldsLocaleMap(x.v[i])

\* C11: a document produced by publish holds no locale map anywhere; every
\* localized field edited in the session, site.brand included, is a plain
\* string there.
C11_PublishedHoldsNoLocaleMap ==
  \A i \in 1..Len(inflight) : ~HoldsLocaleMap(inflight[i])

\* the value stored for a field before the last operation: the overlay
\* entry, else the base document's value, for a section field the value in
\* the live section's data
StoredBefore(path) ==
  IF path[1] = "sections"
    THEN get(Child(FindSection(MergedSections(pre.sections, pre.editedData), path[2]),
                   "data"), Tail2(path))
    ELSE OrElse(get(pre.editedData, path), get(initialData, path))

\* C15: after createTranslation(path, L, v) on a localized field whose stored
\* value is the plain string S, the overlay holds at path a locale map m with
\* m[defaultLocale] = S and m[L] = v whose values are all strings.
C15_CreateTranslationStoresMap ==
  (/\ last.op = "createTranslation"
   /\ IsLocalized(getFieldSchema(last.path))
   /\ IsStr(StoredBefore(last.path)))
  => LET m == get(editedData, last.path)
     IN /\ IsObj(m)
        /\ \A code \in DOMAIN m.v : IsStr(m.v[code])
        /\ Child(m, last.id) = last.val
        /\ last.id # DefaultLocale => Child(m, DefaultLocale) = StoredBefore(last.path)

\* C17: the section ids of the registry are pairwise distinct in every
\* reachable state, two addSection calls of a repeatable type at the same
\* clock reading included.
C17_SectionIdsDistinct ==
  \A i, j \in 1..Len(sections) :
    i # j => Child(sections[i], "id") # Child(sections[j], "id")

\* the section belongs to the page context of the provider
InContext(section) == hasContext => StrIs(Child(section, contextProperty), contextSlug)

IsSingleton(typeKey) == Truthy(get(schema, <<"sectionTypes", typeKey, "singleton">>))

\* the registry positions of the sections of a type in the page context
SectionsOfType(typeKey) ==
  {i \in 1..Len(sections) :
     InContext(sections[i]) /\ StrIs(Child(sections[i], "type"), typeKey)}

\* C18: the registry holds at most one section of each singleton type per
\* page context, whether sections are added from the picker or by an
\* ADD_SECTION message.
C18_AtMostOneSingleton ==
  \A typeKey \in SectionTypes :
    IsSingleton(typeKey) => Cardinality(SectionsOfType(typeKey)) <= 1

\* the payload posted by the last publishChanges
PostedPayload == inflight[Len(inflight)]

\* the data of a registry section with the overlay entries of the section
\* merged in
MergedData(section) ==
  LET sectionEdits == get(editedData, <<"sections", Child(section, "id").v>>)
  IN IF Truthy(sectionEdits)
       THEN deepMerge(Child(section, "data"), sectionEdits)
       ELSE Child(section, "data")

OtherPagesVerbatim ==
  \A page \in DOMAIN Child(initialData, "pages").v \ {pageType} :
    get(PostedPayload, <<"pages", page>>) = get(initialData, <<"pages", page>>)

\* the given top-level fields are published as the base document holds them
FieldsVerbatim(keys) ==
  \A key \in keys : Child(PostedPayload, key) = Child(initialData, key)

\* the top-level fields of the base document the session did not edit
UneditedFields == DOMAIN initialData.v \ ({"pages"} \cup DOMAIN editedData.v)

\* C14 as stated: every page other than the target page and every top-level
\* field the session did not edit is published verbatim.
C14_UntouchedPublishedVerbatim ==
  last.op = "publishChanges" => (OtherPagesVerbatim /\ FieldsVerbatim(UneditedFields))

\* C14: every page other than the target page and every top-level field the
\* session did not edit, other than the legacy top-level sections field, is
\* published verbatim; the legacy top-level sections field is not published.
C14_UntouchedPublishedExceptLegacySections ==
  last.op = "publishChanges"
  => /\ OtherPagesVerbatim
     /\ FieldsVerbatim(UneditedFields \ {"sections"})
     /\ "sections" \notin DOMAIN PostedPayload.v

\* a publish of a session that edited a section field and left site alone,
\* on a document that has other pages and the legacy sections field
C14_Witness ==
  /\ last.op = "publishChanges"
  /\ editedData # EmptyObj
  /\ "site" \in UneditedFields
  /\ "sections" \in DOMAIN initialData.v
  /\ DOMAIN Child(initialData, "pages").v \ {pageType} # {}

NewSection ==
  IF last.pos = NoPosition THEN sections[Len(sections)] ELSE sections[last.pos + 1]

OrderAt(secs, i) == Child(secs[i], "order").v

\* C21: the order values of the registry are strictly ascending in list
\* position after any sequence of addSection (with or without a position),
\* removeSection and moveSection (no two sections share an order value, and
\* sorting by order reproduces the list)
C21_OrdersStrictlyAscending ==
  \A i \in 1..(Len(sections) - 1) : OrderAt(sections, i) < OrderAt(sections, i + 1)

\* every section at 0-based index i has order (i + 1) * 10
Dense(secs) == \A i \in 1..Len(secs) : OrderAt(secs, i) = i * 10

\* the last operation was a moveSection of a section the list held, to a
\* position other than its own
MoveWasEffective ==
  /\ last.op = "moveSection"
  /\ findIndex(pre.sections, last.id) \notin {-1, last.pos}

\* C22: after addSection with a position, and after any effective
\* moveSection, the section at index i has order (i + 1) * 10; after
\* addSection without a position the new section is last with order
\* (count + 1) * 10, count being the list length before the add, and every
\* other section keeps its order
C22_OrdersAfterAddAndMove ==
  /\ (last.op = "addSection" /\ last.pos # NoPosition) => Dense(sections)
  /\ MoveWasEffective => Dense(sections)
  /\ (last.op = "addSection" /\ last.pos = NoPosition) =>
       /\ Len(sections) = Len(pre.sections) + 1
       /\ OrderAt(sections, Len(sections)) = (Len(pre.sections) + 1) * 10
       /\ \A i \in 1..Len(pre.sections) :
            /\ Child(sections[i], "id") = Child(pre.sections[i], "id")
            /\ OrderAt(sections, i) = OrderAt(pre.sections, i)

\* a moveSection or an addSection with a position came first, and an
\* addSection without a position then appended a third section
C22_Witness ==
  /\ last.op = "addSection" /\ last.pos = NoPosition
  /\ (prev.op = "moveSection" \/ (prev.op = "addSection" /\ prev.pos # NoPosition))
  /\ Len(sections) > 2
  /\ Dense(sections)

\* a registry list without its order values
Unordered(secs) == [i \in 1..Len(secs) |-> SpreadWith(secs[i], "order", Num(0))]

\* C23: moveSection(id, p) of the section at index c, with 0 <= p < length
\* and p # c, yields a permutation of the list with the moved section at
\* index p and all other sections in their previous relative sequence
C23_MovePermutes ==
  LET c == findIndex(pre.sections, last.id)
      p == last.pos
      before == Unordered(pre.sections)
      after == Unordered(sections)
  IN (MoveWasEffective /\ 0 <= p /\ p < Len(before)) =>
       /\ Len(after) = Len(before)
       /\ after[p + 1] = before[c + 1]
       /\ RemoveAt(after, p) = RemoveAt(before, c)

\* the last of three sections was moved to the front
C23_Witness ==
  /\ MoveWasEffective
  /\ Len(pre.sections) = 3
  /\ findIndex(pre.sections, last.id) = 2
  /\ last.pos = 0
  /\ Child(sections[1], "id") = Child(pre.sections[3], "id")

\* hasChanges of the state the last operation was applied to
HadChanges == pre.hasStructuralChanges \/ DOMAIN pre.editedData.v # {}

\* the last operation was a moveSection with an unknown id or to the
\* section's own position, or a removeSection with an unknown id
WasStructuralNoop ==
  LET c == findIndex(pre.sections, last.id)
  IN \/ last.op = "moveSection" /\ c \in {-1, last.pos}
     \/ last.op = "removeSection" /\ c = -1

\* C24: moveSection with an unknown id or an unchanged position, and
\* removeSection with an unknown id, change no state at all: registry,
\* overlay, durable cache and hasChanges are as before
C24_StructuralNoopChangesNothing ==
  WasStructuralNoop =>
    /\ sections = pre.sections
    /\ editedData = pre.editedData
    /\ storage = pre.storage
    /\ hasChanges = HadChanges

\* C25: addSection and moveSection leave the overlay unchanged, and no field
\* edit (updateField or an array operation) changes the registry: the shape
\* of the section list lives in the registry alone
C25_OverlayAndRegistryApart ==
  /\ last.op \in {"addSection", "moveSection"} => editedData = pre.editedData
  /\ last.op \in {"updateField", "addArrayItem", "removeArrayItem", "moveArrayItem"}
       => sections = pre.sections

\* the live array at a path in the state the last operation was applied to
ItemsBefore(arrayPath) ==
  getArrayFromLiveState(arrayPath, MergedSections(pre.sections, pre.editedData))

\* the live array at a path now
ItemsNow(arrayPath) == getArrayFromLiveState(arrayPath, getSections)

\* maxItems of the array schema at a path, undefined when the schema sets none
MaxItemsAt(arrayPath) == Child(resolveArraySchema(arrayPath), "maxItems")

\* C26: for a section array whose schema sets maxItems = m and whose base
\* length is at most m, the live array never is longer than m after any
\* sequence of addItem, removeItem and moveItem, and addItem at length m
\* changes nothing
C26_ArrayLengthWithinMaxItems ==
  /\ \A arrayPath \in RenderedArrays(ArrayPaths) :
       MaxItemsAt(arrayPath).k = "n" => Len(ItemsNow(arrayPath)) <= MaxItemsAt(arrayPath).v
  /\ (/\ last.op = "addArrayItem"
      /\ MaxItemsAt(last.path).k = "n"
      /\ Len(ItemsBefore(last.path)) = MaxItemsAt(last.path).v)
       => /\ ItemsNow(last.path) = ItemsBefore(last.path)
          /\ editedData = pre.editedData
          /\ storage = pre.storage
          /\ sections = pre.sections

\* addItem filled the array up to maxItems and a second addItem was refused
C26_Witness ==
  /\ last.op = "addArrayItem" /\ prev.op = "addArrayItem"
  /\ MaxItemsAt(last.path).k = "n"
  /\ Len(ItemsBefore(last.path)) = MaxItemsAt(last.path).v
  /\ Len(ItemsNow(last.path)) = MaxItemsAt(last.path).v

\* C27: moveItem(path, from, to) with both indices in range and from # to
\* yields a permutation of the array with the moved item at index to and the
\* other items in their previous relative sequence (moveItem(path, 0, 2) on
\* [A, B, C] yields [B, C, A]); with an index out of range or from = to the
\* array and the overlay are unchanged
C27_MoveItemPermutes ==
  last.op = "moveArrayItem" =>
    LET from == last.val.v
        to == last.pos
        before == ItemsBefore(last.path)
        after == ItemsNow(last.path)
    IN IF from # to /\ 0 <= from /\ from < Len(before) /\ 0 <= to /\ to < Len(before)
         THEN /\ Len(after) = Len(before)
              /\ after[to + 1] = before[from + 1]
              /\ RemoveAt(after, to) = RemoveAt(before, from)
         ELSE /\ after = before
              /\ editedData = pre.editedData

\* moveItem(path, 0, 2) turned an array [A, B, C] into [B, C, A]
C27_Witness ==
  /\ last.op = "moveArrayItem" /\ last.val.v = 0 /\ last.pos = 2
  /\ Len(ItemsBefore(last.path)) = 3
  /\ ItemsNow(last.path) = <<ItemsBefore(last.path)[2], ItemsBefore(last.path)[3],
                             ItemsBefore(last.path)[1]>>
  /\ ItemsBefore(last.path)[1] # ItemsBefore(last.path)[2]

\* an array path that names no section of the registry the last operation
\* was applied to: a path outside sections.*, or an unknown section id
WasUnresolved(arrayPath) ==
  \/ Len(arrayPath) < 2
  \/ arrayPath[1] # "sections"
  \/ IsUndef(FindSection(pre.sections, arrayPath[2]))

\* C28: addItem on a path that cannot be resolved (unknown section id, or a
\* path outside sections.*) is a no-op: the overlay, the durable cache and
\* hasChanges are unchanged
C28_UnresolvedAddIsNoop ==
  (last.op = "addArrayItem" /\ WasUnresolved(last.path)) =>
    /\ editedData = pre.editedData
    /\ storage = pre.storage
    /\ hasChanges = HadChanges

\* C29: when a publish succeeds, the overlay is reset to empty, the durable
\* cache entry is removed and hasChanges becomes false
C29_PublishSuccessResets ==
  last.op = "publishSuccess" =>
    /\ editedData = EmptyObj
    /\ IsUndef(storage)
    /\ ~hasChanges

\* a publish succeeded in a session that had an edit in overlay and cache
C29_Witness ==
  /\ last.op = "publishSuccess"
  /\ pre.editedData # EmptyObj
  /\ ~IsUndef(pre.storage)
  /\ editedData = EmptyObj
  /\ IsUndef(storage)

\* the overlay merged with the base document, as the cache would store it
MergedDocument == Jsonify(deepMerge(initialData, editedData))

C31_GetAfterSet ==
  result.fn = "get" => result.out = arg.value

\* a value was written over an existing one, inside an array below an
\* object key, and read back
C31_Witness ==
  /\ result.fn = "get"
  /\ arg.path = <<"a", "0", "b">>
  /\ arg.root = Obj([a |-> Arr(<<Str("p")>>)])
  /\ arg.value = Str("x")
  /\ result.out = Str("x")
  /\ result.written # arg.root

\* the path without its last token
Parent(path) == SubSeq(path, 1, Len(path) - 1)

\* the value at the parent of a path; the structure itself for a path of one token
AtParent(root, path) == IF Len(path) = 1 THEN root ELSE get(root, Parent(path))

\* the cells of a value that is an array, no cells otherwise
Cells(x) == IF IsArr(x) THEN x.v ELSE <<>>

\* the call wrote at an index token below object keys only
WroteArrayCell ==
  /\ result.fn = "set"
  /\ IsIndex(arg.path[Len(arg.path)])
  /\ \A n \in 1..(Len(arg.path) - 1) : ~IsIndex(arg.path[n])

\* C32: when set writes at numeric segment i of an array, the resulting
\* array has length max(existing.length, base.length, i + 1), cell i holds
\* the written value, and every other cell j holds existing[j] if defined,
\* else base[j] if defined, else is unset
C32_ArrayGapFilling ==
  WroteArrayCell =>
    LET i == TokNum(arg.path[Len(arg.path)])
        existing == Cells(AtParent(arg.root, arg.path))
        base == Cells(AtParent(arg.base, arg.path))
        written == AtParent(result.out, arg.path)
    IN /\ IsArr(written)
       /\ Len(written.v) = Max3(Len(existing), Len(base), i + 1)
       /\ \A j \in 1..Len(written.v) :
            written.v[j] =
              IF j = i + 1 THEN arg.value
              ELSE IF j <= Len(existing) /\ ~IsUndef(existing[j]) THEN existing[j]
              ELSE IF j <= Len(base) /\ ~IsUndef(base[j]) THEN base[j]
              ELSE Undef

\* set([], "2", "x", base = ["a", "b", "c"]) returned ["a", "b", "x"]
C32_Witness ==
  /\ result.fn = "set"
  /\ arg.root = EmptyArr /\ arg.path = <<"2">> /\ arg.value = Str("x")
  /\ arg.base = Arr(<<Str("a"), Str("b"), Str("c")>>)
  /\ result.out = Arr(<<Str("a"), Str("b"), Str("x")>>)

\* the tokens of an item path after its index token
FieldInItem(path) == SubSeq(path, FirstIndexPos(path) + 1, Len(path))

\* an object without one of its keys
WithoutKey(x, key) == Obj([t \in (DOMAIN x.v) \ {key} |-> x.v[t]])

PayloadBefore ==
  buildPublishPayload(initialData, initialData, pre.editedData, pageType,
                      pre.currentLocale, MergedSections(pre.sections, pre.editedData))

\* C34: immediately after a publish succeeds with no edit made in between,
\* the live view returned by getSections equals the section list that was
\* published for the page (same ids, same sequence, same field values up to
\* locale flattening)
C34_LiveViewIsPublished ==
  (last.op = "publishSuccess" /\ prev.op = "publishChanges") =>
    LET published == PublishedSections(PayloadBefore)
    IN /\ Len(getSections) = Len(published)
       /\ \A i \in 1..Len(published) :
            /\ Child(getSections[i], "id") = Child(published[i], "id")
            /\ flattenLocalizedForLocale(Child(getSections[i], "data"), currentLocale)
                 = Child(published[i], "data")

\* C35: at most one publish is in flight: between a PUBLISH_CHANGES sent by
\* the toolbar and the matching PUBLISH_SUCCESS or PUBLISH_ERROR, a further
\* publish click sends no second PUBLISH_CHANGES
C35_AtMostOnePublishInFlight == Len(inflight) <= 1

RenderedIds ==
  [i \in 1..Len(enabledSections(getSections)) |->
     Child(enabledSections(getSections)[i], "id").v]

\* the first place of an id in a sequence of ids, 0 when it has none
PlaceOf(ids, id) ==
  IF \E i \in 1..Len(ids) : ids[i] = id
    THEN CHOOSE i \in 1..Len(ids) : ids[i] = id /\ \A j \in 1..(i - 1) : ids[j] # id
    ELSE 0

\* C37: dropping a dragged section D on a target section T (D # T) with the
\* indicator 'before' leaves D immediately before T in the rendered section
\* sequence, and with 'after' leaves D immediately after T, whether D
\* started above or below T
C37_DropLandsNextToTarget ==
  last.op = "handleDrop" =>
    LET d == PlaceOf(RenderedIds, last.id)
        t == PlaceOf(RenderedIds, last.path[1])
    IN /\ d > 0 /\ t > 0
       /\ IF last.val.v = "before" THEN d + 1 = t ELSE d = t + 1

\* C38: an ADD_SECTION message carrying {sectionType, position} inserts the
\* new section at list index position, with a string region, exactly as
\* addSection(sectionType, region, position) does
C38_AddSectionMessageInsertsAtPosition ==
  (last.op = "addSection" /\ last.path # <<>>) =>
    LET p == TokNum(last.path[1])
    IN /\ Len(sections) = Len(pre.sections) + 1
       /\ p < Len(sections)
       /\ Child(sections[p + 1], "id").v = last.id
       /\ IsStr(Child(sections[p + 1], "region"))
       /\ Unordered(RemoveAt(sections, p)) = Unordered(pre.sections)

\* canAddItem(path) as it answered before the last operation
CouldAddItem(arrayPath) ==
  ~(MaxItemsAt(arrayPath).k = "n" /\ Len(ItemsBefore(arrayPath)) >= MaxItemsAt(arrayPath).v)

\* C39: for every resolvable section array path and every reachable state,
\* addItem(path) appends exactly one item (the live length grows by 1 and the
\* existing items are unchanged) if canAddItem(path) is true, and changes
\* nothing if canAddItem(path) is false
C39_AddItemFollowsCanAddItem ==
  (last.op = "addArrayItem" /\ ~WasUnresolved(last.path)) =>
    IF CouldAddItem(last.path)
      THEN /\ Len(ItemsNow(last.path)) = Len(ItemsBefore(last.path)) + 1
           /\ SubSeq(ItemsNow(last.path), 1, Len(ItemsBefore(last.path)))
                = ItemsBefore(last.path)
      ELSE /\ ItemsNow(last.path) = ItemsBefore(last.path)
           /\ editedData = pre.editedData
           /\ storage = pre.storage
           /\ sections = pre.sections
           /\ hasChanges = HadChanges

\* addItem appended a third item to an array that had been edited and had
\* room for it
C39_Witness ==
  /\ last.op = "addArrayItem" /\ ~WasUnresolved(last.path)
  /\ prev.op = "updateField"
  /\ CouldAddItem(last.path)
  /\ Len(ItemsBefore(last.path)) = 2
  /\ Len(ItemsNow(last.path)) = 3

====
